---- MODULE Spec2Model ----
(***************************************************************************)
(* Model of build.rs of dpdk-rs: the build script that locates DPDK,       *)
(* prints cargo link directives, runs bindgen and compiles the inline      *)
(* shim.  There are two os_build variants (cfg target_os = windows/linux)  *)
(* and one cargo feature (mlx5).                                           *)
(*                                                                         *)
(* A Rust string is modelled as the sequence of its characters, each       *)
(* character a one-character TLA+ string, so that split, starts_with,      *)
(* slicing, trim and format! are computed character by character.          *)
(* Option<T> is modelled as a sequence of length 0 (None) or 1 (Some).     *)
(***************************************************************************)
EXTENDS Integers, Sequences, FiniteSets, TLC

VARIABLES
    platform,          \* cfg(target_os): "linux" or "windows"
    mlx5,              \* cfg(feature = "mlx5")
    env,               \* the process environment: OUT_DIR and LIBDPDK_PATH
    pc,                \* position of the run inside main / os_build
    status,            \* exit status of the two pkg-config runs (-1: not run)
    cflags,            \* linux: stdout of pkg-config --cflags, as text
    header_locations,  \* linux: Vec of include paths; windows: <<include_path>>
    ldflags,           \* linux: stdout of pkg-config --libs, as text
    library_location,  \* Option: linux library_location / windows library_path
    lib_names,         \* linux lib_names / windows libraries
    out,               \* the lines println! of build.rs has written to stdout
                       \* (what bindgen and cc print themselves is not here)
    clang_args,        \* the clang arguments given to the bindgen Builder
    policy,            \* the allowlist / blocklist calls made on the Builder
    artifacts,         \* which files of OUT_DIR this run has produced
    cc_includes,       \* the include directories given to cc::Build
    err,               \* why the run failed ("" while it has not)
    ran                \* history: the stages that have been entered, in order

vars == <<platform, mlx5, env, pc, status, cflags, header_locations, ldflags,
          library_location, lib_names, out, clang_args, policy, artifacts,
          cc_includes, err, ran>>

(***************************************************************************)
(* Bounds of the model.                                                    *)
(***************************************************************************)
\* the longest pkg-config output of the parser specifications, in pieces
MaxPieces == 5

(***************************************************************************)
(* Strings.                                                                *)
(***************************************************************************)
\* char::is_whitespace, restricted to the characters the model uses
IsWhitespace(c) == c \in {" ", "\n", "\t"}

\* str::starts_with
starts_with(s, prefix) ==
    /\ Len(s) >= Len(prefix)
    /\ SubSeq(s, 1, Len(prefix)) = prefix

\* &s[2..]: the slice after the first two characters
slice_from_2(s) == SubSeq(s, 3, Len(s))

\* str::trim_start and str::trim_end, one character at a time
RECURSIVE trim_start(_)
trim_start(s) ==
    IF s # <<>> /\ IsWhitespace(Head(s)) THEN trim_start(Tail(s)) ELSE s

RECURSIVE trim_end(_)
trim_end(s) ==
    IF s # <<>> /\ IsWhitespace(s[Len(s)])
    THEN trim_end(SubSeq(s, 1, Len(s) - 1))
    ELSE s

\* str::trim
trim(s) == trim_end(trim_start(s))

\* str::split(sep) for a one-character separator: n separators give n + 1
\* items, empty items included
RECURSIVE split(_, _)
split(s, sep) ==
    IF \A i \in 1..Len(s) : s[i] # sep
    THEN <<s>>
    ELSE LET k == CHOOSE i \in 1..Len(s) :
                      s[i] = sep /\ \A j \in 1..(i - 1) : s[j] # sep
         IN  <<SubSeq(s, 1, k - 1)>> \o split(SubSeq(s, k + 1, Len(s)), sep)

\* a slip: the two arguments of format! in the wrong order
format2_swapped(a, b) == b \o a

\* format!("{}{}", a, b)
format2(a, b) == a \o b

(***************************************************************************)
(* Text constants of build.rs.                                             *)
(***************************************************************************)
PrefixI == <<"-", "I">>
PrefixL == <<"-", "L">>
Prefixl == <<"-", "l">>

\* "\\include" and "\\lib" (windows os_build)
IncludeSuffix == <<"\\", "i", "n", "c", "l", "u", "d", "e">>
LibSuffix == <<"\\", "l", "i", "b">>

\* "-mavx"
Mavx == <<"-", "m", "a", "v", "x">>

\* "PKG_CONFIG_PATH"
PkgConfigPath ==
    <<"P", "K", "G", "_", "C", "O", "N", "F", "I", "G", "_", "P", "A", "T", "H">>

\* the windows `libraries` vector
WindowsLibraries ==
    << <<"r", "t", "e", "_", "c", "f", "g", "f", "i", "l", "e">>,
       <<"r", "t", "e", "_", "h", "a", "s", "h">>,
       <<"r", "t", "e", "_", "c", "m", "d", "l", "i", "n", "e">>,
       <<"r", "t", "e", "_", "p", "c", "i">>,
       <<"r", "t", "e", "_", "e", "t", "h", "d", "e", "v">>,
       <<"r", "t", "e", "_", "m", "e", "t", "e", "r">>,
       <<"r", "t", "e", "_", "n", "e", "t">>,
       <<"r", "t", "e", "_", "m", "b", "u", "f">>,
       <<"r", "t", "e", "_", "m", "e", "m", "p", "o", "o", "l">>,
       <<"r", "t", "e", "_", "r", "c", "u">>,
       <<"r", "t", "e", "_", "r", "i", "n", "g">>,
       <<"r", "t", "e", "_", "e", "a", "l">>,
       <<"r", "t", "e", "_", "t", "e", "l", "e", "m", "e", "t", "r", "y">>,
       <<"r", "t", "e", "_", "k", "v", "a", "r", "g", "s">> >>

\* the names lib_names.extend adds under feature mlx5
Mlx5Libraries ==
    << <<"r", "t", "e", "_", "n", "e", "t", "_", "m", "l", "x", "5">>,
       <<"r", "t", "e", "_", "b", "u", "s", "_", "p", "c", "i">>,
       <<"r", "t", "e", "_", "b", "u", "s", "_", "v", "d", "e", "v">>,
       <<"r", "t", "e", "_", "c", "o", "m", "m", "o", "n", "_", "m", "l", "x", "5">> >>

(***************************************************************************)
(* The bindgen allowlist / blocklist calls, in call order.                 *)
(***************************************************************************)
R(kind, name, disposition) ==
    [kind |-> kind, name |-> name, disposition |-> disposition]

\* the allowlist_type / allowlist_function / allowlist_var calls of the linux
\* os_build
LinuxAllowlist ==
    << R("Type", "rte_mbuf", "Allow"),
       R("Type", "rte_mempool", "Allow"),
       R("Function", "rte_mempool_obj_iter", "Allow"),
       R("Function", "rte_mempool_mem_iter", "Allow"),
       R("Function", "rte_mempool_free", "Allow"),
       R("Function", "rte_eth_tx_burst", "Allow"),
       R("Function", "rte_eth_rx_burst", "Allow"),
       R("Function", "rte_eal_init", "Allow"),
       R("Type", "rte_eth_txconf", "Allow"),
       R("Type", "rte_eth_rxconf", "Allow"),
       R("Function", "rte_eth_dev_socket_id", "Allow"),
       R("Function", "rte_eth_dev_socket_id", "Allow"),
       R("Function", "rte_eth_rx_queue_setup", "Allow"),
       R("Function", "rte_eth_tx_queue_setup", "Allow"),
       R("Type", "rte_eth_fc_conf", "Allow"),
       R("Function", "rte_eth_dev_start", "Allow"),
       R("Function", "rte_eth_dev_flow_ctrl_get", "Allow"),
       R("Function", "rte_strerror", "Allow"),
       R("Function", "rte_eth_dev_count_avail", "Allow"),
       R("Function", "rte_eth_conf", "Allow"),
       R("Function", "rte_eth_dev_configure", "Allow"),
       R("Function", "rte_eth_dev_count_avail", "Allow"),
       R("Function", "rte_eth_dev_get_mtu", "Allow"),
       R("Function", "rte_eth_dev_set_mtu", "Allow"),
       R("Function", "rte_eth_promiscuous_enable", "Allow"),
       R("Function", "rte_eth_dev_is_valid_port", "Allow"),
       R("Function", "rte_eth_dev_flow_ctrl_set", "Allow"),
       R("Variable", "RTE_PKTMBUF_HEADROOM", "Allow"),
       R("Function", "rte_mempool_avail_count", "Allow"),
       R("Function", "rte_mempool_in_use_count", "Allow"),
       R("Variable", "RTE_ETHER_MAX_JUMBO_FRAME", "Allow"),
       R("Function", "rte_eth_link_get_nowait", "Allow"),
       R("Variable", "RTE_ETH_LINK_UP", "Allow"),
       R("Variable", "RTE_ETH_LINK_FULL_DUPLEX", "Allow"),
       R("Function", "rte_delay_us_block", "Allow"),
       R("Function", "rte_socket_id", "Allow"),
       R("Function", "rte_pktmbuf_pool_create", "Allow"),
       R("Type", "rte_pktmbuf_pool_private", "Allow"),
       R("Function", "rte_mempool_create_empty", "Allow"),
       R("Function", "rte_pktmbuf_pool_init", "Allow"),
       R("Function", "rte_mempool_populate_default", "Allow"),
       R("Function", "rte_pktmbuf_init", "Allow"),
       R("Function", "rte_mempool_avail_count", "Allow"),
       R("Function", "rte_mempool_in_use_count", "Allow"),
       R("Function", "rte_pktmbuf_clone", "Allow"),
       R("Type", "rte_ether_addr", "Allow"),
       R("Variable", "RTE_MBUF_DEFAULT_BUF_SIZE", "Allow"),
       R("Variable", "RTE_ETHER_MAX_JUMBO_FRAME_LEN", "Allow"),
       R("Variable", "RTE_ETH_RX_OFFLOAD_TCP_CKSUM", "Allow"),
       R("Variable", "RTE_ETH_RX_OFFLOAD_UDP_CKSUM", "Allow"),
       R("Variable", "RTE_ETH_TX_OFFLOAD_TCP_CKSUM", "Allow"),
       R("Variable", "RTE_ETH_TX_OFFLOAD_UDP_CKSUM", "Allow"),
       R("Variable", "RTE_ETH_DEV_NO_OWNER", "Allow"),
       R("Variable", "RTE_ETHER_MAX_LEN", "Allow"),
       R("Variable", "RTE_ETH_RSS_IP", "Allow"),
       R("Function", "rte_eth_find_next_owned_by", "Allow"),
       R("Variable", "RTE_MAX_ETHPORTS", "Allow"),
       R("Function", "rte_eth_dev_info_get", "Allow"),
       R("Function", "rte_eth_macaddr_get", "Allow"),
       R("Variable", "RTE_ETH_RX_OFFLOAD_IPV4_CKSUM", "Allow"),
       R("Variable", "RTE_ETH_RX_OFFLOAD_UDP_CKSUM", "Allow"),
       R("Variable", "RTE_ETH_MQ_RX_RSS", "Allow"),
       R("Variable", "RTE_ETH_MQ_TX_NONE", "Allow"),
       R("Function", "rte_auxiliarry_register", "Allow") >>

\* a slip: a type of the allowlist put on the blocklist as well
LinuxBlocklistConflict ==
    << R("Type", "rte_arp_ipv4", "Block"),
       R("Type", "rte_arp_hdr", "Block"),
       R("Type", "rte_ether_addr", "Block") >>

\* the blocklist_type calls of the linux os_build
LinuxBlocklist ==
    << R("Type", "rte_arp_ipv4", "Block"),
       R("Type", "rte_arp_hdr", "Block") >>

LinuxPolicy == LinuxAllowlist \o LinuxBlocklist

\* the blocklist_type calls of the windows os_build
WindowsPolicy ==
    << R("Type", "rte_arp_ipv4", "Block"),
       R("Type", "rte_arp_hdr", "Block"),
       R("Type", "IMAGE_TLS_DIRECTORY", "Block"),
       R("Type", "PIMAGE_TLS_DIRECTORY", "Block"),
       R("Type", "PIMAGE_TLS_DIRECTORY64", "Block"),
       R("Type", "IMAGE_TLS_DIRECTORY64", "Block"),
       R("Type", "_IMAGE_TLS_DIRECTORY64", "Block") >>

(***************************************************************************)
(* The two parsing loops of the linux os_build.                            *)
(***************************************************************************)
\* for flag in cflags.split(' ') { if flag.starts_with("-I") { push(flag[2..].trim()) } }
RECURSIVE cflags_loop(_)
cflags_loop(flags) ==
    IF flags = <<>>
    THEN <<>>
    ELSE LET flag == Head(flags)
         IN  (IF starts_with(flag, PrefixI)
              THEN <<trim(slice_from_2(flag))>>
              ELSE <<>>) \o cflags_loop(Tail(flags))

\* a slip: the include path pushed without .trim()
RECURSIVE cflags_loop_untrimmed(_)
cflags_loop_untrimmed(flags) ==
    IF flags = <<>>
    THEN <<>>
    ELSE LET flag == Head(flags)
         IN  (IF starts_with(flag, PrefixI)
              THEN <<slice_from_2(flag)>>
              ELSE <<>>) \o cflags_loop_untrimmed(Tail(flags))

parse_cflags_untrimmed(s) == cflags_loop_untrimmed(split(s, " "))

parse_cflags(s) == cflags_loop(split(s, " "))

\* for flag in ldflags.split(' ') { -L sets library_location, -l pushes lib_names }
RECURSIVE ldflags_loop(_, _)
ldflags_loop(flags, acc) ==
    IF flags = <<>>
    THEN acc
    ELSE LET flag == Head(flags)
             nxt  == IF starts_with(flag, PrefixL)
                     THEN [acc EXCEPT !.library_location = <<slice_from_2(flag)>>]
                     ELSE IF starts_with(flag, Prefixl)
                          THEN [acc EXCEPT !.lib_names = Append(@, slice_from_2(flag))]
                          ELSE acc
         IN  ldflags_loop(Tail(flags), nxt)

parse_ldflags(s) ==
    ldflags_loop(split(s, " "), [library_location |-> <<>>, lib_names |-> <<>>])

\* a slip: only the names not yet in the list are added
extend_mlx5_dedup(names, feature) ==
    IF feature
    THEN names \o SelectSeq(Mlx5Libraries,
                            LAMBDA n : \A i \in 1..Len(names) : names[i] # n)
    ELSE names

\* lib_names.extend(&[...]) under #[cfg(feature = "mlx5")]
extend_mlx5(names, feature) ==
    IF feature THEN names \o Mlx5Libraries ELSE names

(***************************************************************************)
(* Inputs: the environment and what pkg-config prints.                     *)
(***************************************************************************)
Present(v) == [kind |-> "present", value |-> v]
Absent == [kind |-> "absent", value |-> <<>>]
NotUnicode == [kind |-> "not_unicode", value |-> <<>>]

\* env::var(name) is Ok exactly for a variable that is set to valid unicode
env_var_ok(v) == v.kind = "present"

OutDirValue == <<"o", "u", "t">>

\* "/opt/dpdk"
ExampleRoot == <<"/", "o", "p", "t", "/", "d", "p", "d", "k">>

Roots == {ExampleRoot, <<"C", ":", "\\", "d">>, <<>>}

Envs ==
    [OUT_DIR : {Present(OutDirValue), Absent},
     LIBDPDK_PATH : {Present(r) : r \in Roots} \cup {Absent, NotUnicode}]

\* "-Ipath/a -Ipath/b"
ExampleCflags ==
    <<"-", "I", "p", "a", "t", "h", "/", "a", " ",
      "-", "I", "p", "a", "t", "h", "/", "b">>

\* "-Lpath/lib -lfoo -lbar"
ExampleLdflags ==
    <<"-", "L", "p", "a", "t", "h", "/", "l", "i", "b", " ",
      "-", "l", "f", "o", "o", " ", "-", "l", "b", "a", "r">>

\* what pkg-config --cflags prints in the runs of the pipeline
CflagsSamples ==
    { ExampleCflags,
      <<"-", "I", "a", " ", "-", "D", "x", " ", "-", "I", "a", "\n">>,
      <<"-", "D", "x", "\n">> }

\* what pkg-config --libs prints in the runs of the pipeline
LdflagsSamples ==
    { ExampleLdflags,
      <<"-", "L", "a", " ", "-", "L", "b", " ",
        "-", "l", "r", "t", "e", "_", "b", "u", "s", "_", "p", "c", "i", " ",
        "-", "l", "a", "\n">>,
      <<"-", "l", "a", " ", "-", "l", "a", " ", "\n">>,
      <<"-", "p", "t", "h", "r", "e", "a", "d", "\n">> }

\* the pieces the parser specifications build pkg-config outputs from
Pieces ==
    { PrefixI, PrefixL, Prefixl, <<"a">>, <<"b">>, <<" ">>, <<"\n">> }

RECURSIVE PieceStrings(_)
PieceStrings(n) ==
    IF n = 0
    THEN {<<>>}
    ELSE LET shorter == PieceStrings(n - 1)
         IN  shorter \cup {s \o p : s \in shorter, p \in Pieces}

ParserInputs == PieceStrings(MaxPieces) \cup {ExampleCflags, ExampleLdflags}

(***************************************************************************)
(* Standard output: the cargo directives build.rs prints itself.           *)
(***************************************************************************)
D(kind, value) == [kind |-> kind, value |-> value]

\* the rustc-link-lib lines printed so far: the position of the `for` loop
LibLines(o) == SelectSeq(o, LAMBDA d : d.kind = "rustc-link-lib=dylib")

\* clang_arg(&format!("-I{}", h)) for every h, then clang_arg("-mavx")
include_args(locations) ==
    [i \in 1..Len(locations) |-> format2(PrefixI, locations[i])] \o <<Mavx>>

\* a panic!, or main's panic on Err: the process ends there
Panic(why) ==
    /\ pc' = "failed"
    /\ err' = why

(***************************************************************************)
(* Initial states: before main runs.                                       *)
(***************************************************************************)
Blank ==
    /\ header_locations = <<>>
    /\ library_location = <<>>
    /\ lib_names = <<>>
    /\ clang_args = <<>>
    /\ policy = <<>>
    /\ artifacts = [bindings |-> FALSE, shim |-> FALSE]
    /\ cc_includes = <<>>
    /\ err = ""

Init ==
    /\ platform \in {"linux", "windows"}
    /\ mlx5 \in BOOLEAN
    /\ env \in Envs
    /\ pc = "start"
    /\ ran = <<>>
    /\ status = [cflags |-> -1, ldflags |-> -1]
    /\ cflags = <<>>
    /\ ldflags = <<>>
    /\ out = <<>>
    /\ Blank

(***************************************************************************)
(* main and the linux os_build.                                            *)
(***************************************************************************)
\* main calls os_build
MainCall ==
    /\ pc = "start"
    /\ pc' = "out_dir"
    /\ ran' = Append(ran, "locate")
    /\ UNCHANGED <<platform, mlx5, env, status, cflags, header_locations,
                   ldflags, library_location, lib_names, out, clang_args,
                   policy, artifacts, cc_includes, err>>

\* env::var("OUT_DIR").unwrap(), then the rerun-if-env-changed line
LinuxOutDir ==
    /\ platform = "linux"
    /\ pc = "out_dir"
    /\ IF env_var_ok(env.OUT_DIR)
       THEN /\ out' = Append(out, D("rerun-if-env-changed", PkgConfigPath))
            /\ pc' = "cflags_query"
            /\ err' = err
       ELSE /\ Panic("OutDirMissing")
            /\ out' = out
    /\ UNCHANGED <<platform, mlx5, env, status, cflags, header_locations,
                   ldflags, library_location, lib_names, clang_args, policy,
                   artifacts, cc_includes, ran>>

\* Command::new("pkg-config").args(["--cflags", "libdpdk"]).output(), then
\* String::from_utf8(..).unwrap().  The exit status is never read.
PkgConfigCflags ==
    /\ platform = "linux"
    /\ pc = "cflags_query"
    /\ \/ /\ Panic("ToolchainQueryFailed")          \* output() is Err
          /\ UNCHANGED <<status, cflags>>
       \/ \E st \in {0, 1} :
            /\ status' = [status EXCEPT !.cflags = st]
            /\ \/ /\ Panic("ToolchainQueryMalformed")  \* from_utf8 is Err
                  /\ cflags' = cflags
               \/ /\ cflags' \in (IF st = 0 THEN CflagsSamples ELSE {<<>>})
                  /\ pc' = "cflags_parse"
                  /\ err' = err
    /\ UNCHANGED <<platform, mlx5, env, header_locations, ldflags,
                   library_location, lib_names, out, clang_args, policy,
                   artifacts, cc_includes, ran>>

\* the loop over cflags.split(' ')
ParseCflags ==
    /\ platform = "linux"
    /\ pc = "cflags_parse"
    /\ header_locations' = parse_cflags(cflags)
    /\ pc' = "ldflags_query"
    /\ UNCHANGED <<platform, mlx5, env, status, cflags, ldflags,
                   library_location, lib_names, out, clang_args, policy,
                   artifacts, cc_includes, err, ran>>

\* Command::new("pkg-config").args(["--libs", "libdpdk"]).output(), then
\* String::from_utf8(..).unwrap().  The exit status is never read.
PkgConfigLdflags ==
    /\ platform = "linux"
    /\ pc = "ldflags_query"
    /\ \/ /\ Panic("ToolchainQueryFailed")
          /\ UNCHANGED <<status, ldflags>>
       \/ \E st \in {0, 1} :
            /\ status' = [status EXCEPT !.ldflags = st]
            /\ \/ /\ Panic("ToolchainQueryMalformed")
                  /\ ldflags' = ldflags
               \/ /\ ldflags' \in (IF st = 0 THEN LdflagsSamples ELSE {<<>>})
                  /\ pc' = "ldflags_parse"
                  /\ err' = err
    /\ UNCHANGED <<platform, mlx5, env, cflags, header_locations,
                   library_location, lib_names, out, clang_args, policy,
                   artifacts, cc_includes, ran>>

\* the loop over ldflags.split(' '), then the mlx5 block
ParseLdflags ==
    /\ platform = "linux"
    /\ pc = "ldflags_parse"
    /\ library_location' = parse_ldflags(ldflags).library_location
    /\ lib_names' = extend_mlx5(parse_ldflags(ldflags).lib_names, mlx5)
    /\ pc' = "link_search"
    /\ UNCHANGED <<platform, mlx5, env, status, cflags, header_locations,
                   ldflags, out, clang_args, policy, artifacts, cc_includes,
                   err, ran>>

\* if let Some(location) = library_location { println!(rustc-link-search=native) }
LinkSearch ==
    /\ platform = "linux"
    /\ pc = "link_search"
    /\ out' = IF library_location # <<>>
              THEN Append(out, D("rustc-link-search=native", library_location[1]))
              ELSE out
    /\ pc' = "link_libs"
    /\ ran' = Append(ran, "link")
    /\ UNCHANGED <<platform, mlx5, env, status, cflags, header_locations,
                   ldflags, library_location, lib_names, clang_args, policy,
                   artifacts, cc_includes, err>>

\* a slip: the names printed from the last to the first
link_lib_next_reversed(names, o) ==
    Append(o, D("rustc-link-lib=dylib", names[Len(names) - Len(LibLines(o))]))

\* for lib_name in &lib_names { println!(rustc-link-lib=dylib) }: one round
link_lib_next(names, o) ==
    Append(o, D("rustc-link-lib=dylib", names[Len(LibLines(o)) + 1]))

link_lib_loop ==
    /\ pc = "link_libs"
    /\ \/ /\ Len(LibLines(out)) < Len(lib_names)
          /\ out' = link_lib_next(lib_names, out)
          /\ pc' = pc
       \/ /\ Len(LibLines(out)) >= Len(lib_names)
          /\ out' = out
          /\ pc' = "generate"
    /\ UNCHANGED <<platform, mlx5, env, status, cflags, header_locations,
                   ldflags, library_location, lib_names, clang_args, policy,
                   artifacts, cc_includes, err, ran>>

LinkLib ==
    /\ platform = "linux"
    /\ link_lib_loop

\* a slip: the error of generate() noted and the run carried on
GenerateIgnoresFailure ==
    /\ platform = "linux"
    /\ pc = "generate"
    /\ clang_args' = include_args(header_locations)
    /\ policy' = LinuxPolicy
    /\ ran' = Append(ran, "generate")
    /\ pc' = "write"
    /\ err' \in {err, "GenerationFailed"}
    /\ UNCHANGED <<platform, mlx5, env, status, cflags, header_locations,
                   ldflags, library_location, lib_names, out, artifacts,
                   cc_includes>>

\* Builder::default() ... .generate().unwrap_or_else(panic)
Generate ==
    /\ platform = "linux"
    /\ pc = "generate"
    /\ clang_args' = include_args(header_locations)
    /\ policy' = LinuxPolicy
    /\ ran' = Append(ran, "generate")
    /\ \/ /\ pc' = "write"
          /\ err' = err
       \/ Panic("GenerationFailed")
    /\ UNCHANGED <<platform, mlx5, env, status, cflags, header_locations,
                   ldflags, library_location, lib_names, out, artifacts,
                   cc_includes>>

\* bindings.write_to_file(out_dir.join("bindings.rs")).expect(..)
WriteBindings ==
    /\ platform = "linux"
    /\ pc = "write"
    /\ \/ /\ artifacts' = [artifacts EXCEPT !.bindings = TRUE]
          /\ pc' = "compile"
          /\ err' = err
       \/ /\ Panic("GenerationFailed")
          /\ artifacts' = artifacts
    /\ UNCHANGED <<platform, mlx5, env, status, cflags, header_locations,
                   ldflags, library_location, lib_names, out, clang_args,
                   policy, cc_includes, ran>>

\* cc::Build::new() ... .compile("inlined"), which panics when the compiler
\* fails; then Ok(())
compile_shim ==
    /\ pc = "compile"
    /\ cc_includes' = header_locations
    /\ ran' = Append(ran, "compile")
    /\ \/ /\ artifacts' = [artifacts EXCEPT !.shim = TRUE]
          /\ pc' = "returned_ok"
          /\ err' = err
       \/ /\ Panic("ShimCompilationFailed")
          /\ artifacts' = artifacts
    /\ UNCHANGED <<platform, mlx5, env, status, cflags, header_locations,
                   ldflags, library_location, lib_names, out, clang_args,
                   policy>>

CompileShim ==
    /\ platform = "linux"
    /\ compile_shim

\* match os_build() { Ok(()) => {}, Err(e) => panic!(..) }
MainMatch ==
    /\ \/ /\ pc = "returned_ok"
          /\ pc' = "done"
          /\ err' = err
       \/ /\ pc = "returned_err"
          /\ pc' = "failed"
          /\ err' = err
    /\ UNCHANGED <<platform, mlx5, env, status, cflags, header_locations,
                   ldflags, library_location, lib_names, out, clang_args,
                   policy, artifacts, cc_includes, ran>>

(***************************************************************************)
(* The windows os_build.  Its errors leave through `?`: os_build returns   *)
(* Err and main panics.                                                    *)
(***************************************************************************)
ReturnErr(why) ==
    /\ pc' = "returned_err"
    /\ err' = why

\* a slip: LIBDPDK_PATH read with unwrap_or_default instead of `?`
WindowsEnvUnchecked ==
    /\ platform = "windows"
    /\ pc = "out_dir"
    /\ IF ~env_var_ok(env.OUT_DIR)
       THEN /\ ReturnErr("ToolchainNotFound")
            /\ UNCHANGED <<header_locations, library_location, lib_names>>
       ELSE /\ header_locations' =
                   <<format2(env.LIBDPDK_PATH.value, IncludeSuffix)>>
            /\ library_location' =
                   <<format2(env.LIBDPDK_PATH.value, LibSuffix)>>
            /\ lib_names' = WindowsLibraries
            /\ pc' = "link_search"
            /\ err' = err
    /\ UNCHANGED <<platform, mlx5, env, status, cflags, ldflags, out,
                   clang_args, policy, artifacts, cc_includes, ran>>

\* env::var("OUT_DIR")?, env::var("LIBDPDK_PATH")?, the two format!s and
\* the libraries vector
WindowsEnv ==
    /\ platform = "windows"
    /\ pc = "out_dir"
    /\ IF ~env_var_ok(env.OUT_DIR) \/ ~env_var_ok(env.LIBDPDK_PATH)
       THEN /\ ReturnErr("ToolchainNotFound")
            /\ UNCHANGED <<header_locations, library_location, lib_names>>
       ELSE /\ header_locations' =
                   <<format2(env.LIBDPDK_PATH.value, IncludeSuffix)>>
            /\ library_location' =
                   <<format2(env.LIBDPDK_PATH.value, LibSuffix)>>
            /\ lib_names' = WindowsLibraries
            /\ pc' = "link_search"
            /\ err' = err
    /\ UNCHANGED <<platform, mlx5, env, status, cflags, ldflags, out,
                   clang_args, policy, artifacts, cc_includes, ran>>

\* println!("cargo:rustc-link-search={}", library_path)
WindowsLinkSearch ==
    /\ platform = "windows"
    /\ pc = "link_search"
    /\ out' = Append(out, D("rustc-link-search", library_location[1]))
    /\ pc' = "link_libs"
    /\ ran' = Append(ran, "link")
    /\ UNCHANGED <<platform, mlx5, env, status, cflags, header_locations,
                   ldflags, library_location, lib_names, clang_args, policy,
                   artifacts, cc_includes, err>>

\* Builder::default() ... .generate()?
WindowsGenerate ==
    /\ platform = "windows"
    /\ pc = "generate"
    /\ clang_args' = include_args(header_locations)
    /\ policy' = WindowsPolicy
    /\ ran' = Append(ran, "generate")
    /\ \/ /\ pc' = "write"
          /\ err' = err
       \/ ReturnErr("GenerationFailed")
    /\ UNCHANGED <<platform, mlx5, env, status, cflags, header_locations,
                   ldflags, library_location, lib_names, out, artifacts,
                   cc_includes>>

\* bindings.write_to_file(bindings_out)?
WindowsWriteBindings ==
    /\ platform = "windows"
    /\ pc = "write"
    /\ \/ /\ artifacts' = [artifacts EXCEPT !.bindings = TRUE]
          /\ pc' = "compile"
          /\ err' = err
       \/ /\ ReturnErr("GenerationFailed")
          /\ artifacts' = artifacts
    /\ UNCHANGED <<platform, mlx5, env, status, cflags, header_locations,
                   ldflags, library_location, lib_names, out, clang_args,
                   policy, cc_includes, ran>>

\* for lib in &libraries { println!("cargo:rustc-link-lib=dylib={}", lib) }
WindowsLinkLib ==
    /\ platform = "windows"
    /\ link_lib_loop

\* cc::Build::new() ... builder.include(include_path); builder.compile("inlined")
WindowsCompileShim ==
    /\ platform = "windows"
    /\ compile_shim

Next ==
    \/ MainCall
    \/ LinuxOutDir
    \/ PkgConfigCflags
    \/ ParseCflags
    \/ PkgConfigLdflags
    \/ ParseLdflags
    \/ LinkSearch
    \/ LinkLib
    \/ Generate
    \/ WriteBindings
    \/ CompileShim
    \/ MainMatch
    \/ WindowsEnv
    \/ WindowsLinkSearch
    \/ WindowsLinkLib
    \/ WindowsGenerate
    \/ WindowsWriteBindings
    \/ WindowsCompileShim

Spec == Init /\ [][Next]_vars

(***************************************************************************)
(* The two parsers on every pkg-config output of up to MaxPieces pieces:   *)
(* the run starts where the output has just been decoded as text.          *)
(***************************************************************************)
AfterOutDir == <<D("rerun-if-env-changed", PkgConfigPath)>>

InitCflags ==
    /\ platform = "linux"
    /\ mlx5 = FALSE
    /\ env = [OUT_DIR |-> Present(OutDirValue), LIBDPDK_PATH |-> Absent]
    /\ pc = "cflags_parse"
    /\ ran = <<"locate">>
    /\ status = [cflags |-> 0, ldflags |-> -1]
    /\ cflags \in ParserInputs
    /\ ldflags = <<>>
    /\ out = AfterOutDir
    /\ Blank

NextCflags == ParseCflags

SpecCflags == InitCflags /\ [][NextCflags]_vars

InitLdflags ==
    /\ platform = "linux"
    /\ mlx5 \in BOOLEAN
    /\ env = [OUT_DIR |-> Present(OutDirValue), LIBDPDK_PATH |-> Absent]
    /\ pc = "ldflags_parse"
    /\ ran = <<"locate">>
    /\ status = [cflags |-> 0, ldflags |-> 0]
    /\ cflags = <<>>
    /\ ldflags \in ParserInputs
    /\ out = AfterOutDir
    /\ Blank

NextLdflags == ParseLdflags

SpecLdflags == InitLdflags /\ [][NextLdflags]_vars

(***************************************************************************)
(* Vocabulary of the properties.  The flag values of a pkg-config output   *)
(* are described here by positions in the text, independently of the       *)
(* loops above.                                                            *)
(***************************************************************************)
Whitespace == {" ", "\n", "\t"}

IsPrefix(a, b) == Len(a) <= Len(b) /\ SubSeq(b, 1, Len(a)) = a

Range(q) == {q[i] : i \in 1..Len(q)}

\* the positions where a token begins when s is cut at the characters of seps
TokenStarts(s, seps) ==
    {i \in 1..Len(s) : s[i] \notin seps /\ (i = 1 \/ s[i - 1] \in seps)}

\* the position where the token that begins at i ends
TokenEnd(s, seps, i) ==
    CHOOSE e \in i..Len(s) :
        /\ \A j \in i..e : s[j] \notin seps
        /\ (e = Len(s) \/ s[e + 1] \in seps)

\* the tokens that begin with the two-character prefix
FlagStarts(s, seps, prefix) ==
    {i \in TokenStarts(s, seps) :
        i < Len(s) /\ s[i] = prefix[1] /\ s[i + 1] = prefix[2]}

Kth(S, k) == CHOOSE x \in S : Cardinality({y \in S : y < x}) = k - 1

\* the prefix-stripped values of those tokens, in the order of the text
FlagValues(s, seps, prefix) ==
    LET F == FlagStarts(s, seps, prefix)
    IN  [k \in 1..Cardinality(F) |->
            SubSeq(s, Kth(F, k) + 2, TokenEnd(s, seps, Kth(F, k)))]

\* v without its leading and trailing whitespace
Stripped(v) ==
    LET keep == {i \in 1..Len(v) : v[i] \notin Whitespace}
    IN  IF keep = {}
        THEN <<>>
        ELSE SubSeq(v, CHOOSE i \in keep : \A j \in keep : i <= j,
                       CHOOSE i \in keep : \A j \in keep : i >= j)

HasWhitespace(v) == \E i \in 1..Len(v) : v[i] \in Whitespace

\* the link directives among the printed lines
LinkLines(o) ==
    SelectSeq(o, LAMBDA d : d.kind \in {"rustc-link-search=native",
                                         "rustc-link-search",
                                         "rustc-link-lib=dylib"})

SearchKind ==
    IF platform = "linux" THEN "rustc-link-search=native" ELSE "rustc-link-search"

\* what the Link Configurator is to print for the descriptor of this run
ExpectedLinkLines ==
    (IF library_location = <<>>
     THEN <<>>
     ELSE <<D(SearchKind, library_location[1])>>)
    \o [i \in 1..Len(lib_names) |-> D("rustc-link-lib=dylib", lib_names[i])]

Entered(stage) == stage \in Range(ran)

\* the locator has succeeded: the descriptor of this run is complete
Located == pc = "link_search" \/ Entered("link")

(***************************************************************************)
(* C1 (as amended): once the compiler flags are parsed, header_locations   *)
(* is, in order and with repeats kept, the prefix-stripped and             *)
(* whitespace-trimmed value of every token of the output that starts with  *)
(* -I, where the tokens are the pieces between single space characters.    *)
(***************************************************************************)
C1_IncludePathsSplitOnSpace ==
    pc = "ldflags_query" =>
        LET v == FlagValues(cflags, {" "}, PrefixI)
        IN  header_locations = [k \in 1..Len(v) |-> Stripped(v[k])]

C1_Witness ==
    /\ pc = "ldflags_query"
    /\ cflags = ExampleCflags
    /\ header_locations = << <<"p", "a", "t", "h", "/", "a">>,
                             <<"p", "a", "t", "h", "/", "b">> >>

\* C1 as stated: the tokens are the pieces between whitespace of any kind
C1_IncludePathsSplitOnWhitespace ==
    pc = "ldflags_query" =>
        header_locations = FlagValues(cflags, Whitespace, PrefixI)

(***************************************************************************)
(* C2 (as stated): once the linker flags are parsed, library_location is   *)
(* the value of the last -L token, lib_names the values of the -l tokens   *)
(* in order (before what the feature adds), the tokens being the pieces    *)
(* between whitespace, and no name or path contains whitespace.            *)
(***************************************************************************)
C2_LinkerFlagsSplitOnWhitespace ==
    (platform = "linux" /\ pc = "link_search") =>
        LET paths == FlagValues(ldflags, Whitespace, PrefixL)
            names == FlagValues(ldflags, Whitespace, Prefixl)
        IN  /\ library_location =
                   (IF paths = <<>> THEN <<>> ELSE <<paths[Len(paths)]>>)
            /\ lib_names = names \o (IF mlx5 THEN Mlx5Libraries ELSE <<>>)
            /\ \A i \in 1..Len(lib_names) : ~HasWhitespace(lib_names[i])
            /\ \A i \in 1..Len(library_location) :
                   ~HasWhitespace(library_location[i])

(***************************************************************************)
(* C3: the link directives printed are, in order, the search-directory     *)
(* line (none exactly when library_location is None) and then one          *)
(* rustc-link-lib line per entry of lib_names, in order, repeats included; *)
(* at every moment what has been printed is a prefix of that list, so no   *)
(* library line precedes the search line.                                  *)
(***************************************************************************)
C3_LinkDirectivesInOrder ==
    /\ IsPrefix(LinkLines(out), ExpectedLinkLines)
    /\ Entered("generate") => LinkLines(out) = ExpectedLinkLines
    /\ Len(SelectSeq(out, LAMBDA d : d.kind = SearchKind)) <= 1
    /\ (Entered("generate") /\ library_location = <<>>) =>
           LinkLines(out) = LibLines(out)

C3_Witness ==
    /\ pc = "done"
    /\ library_location # <<>>
    /\ \E i, j \in 1..Len(lib_names) : i < j /\ lib_names[i] = lib_names[j]
    /\ Len(LinkLines(out)) = 1 + Len(lib_names)
    /\ LinkLines(out)[1].kind = "rustc-link-search=native"

(***************************************************************************)
(* C4 (as amended): on linux lib_names is the list of -l values of the     *)
(* linker flags followed, exactly when feature mlx5 is on, by rte_net_mlx5,*)
(* rte_bus_pci, rte_bus_vdev, rte_common_mlx5 in that order, with nothing  *)
(* removed or reordered; on windows the list is the fourteen fixed names   *)
(* whether or not the feature is on.  The rustc-link-lib lines follow it.  *)
(***************************************************************************)
DiscoveredNames == FlagValues(ldflags, {" "}, Prefixl)

FourNames ==
    << <<"r", "t", "e", "_", "n", "e", "t", "_", "m", "l", "x", "5">>,
       <<"r", "t", "e", "_", "b", "u", "s", "_", "p", "c", "i">>,
       <<"r", "t", "e", "_", "b", "u", "s", "_", "v", "d", "e", "v">>,
       <<"r", "t", "e", "_", "c", "o", "m", "m", "o", "n", "_", "m", "l", "x", "5">> >>

FourteenNames ==
    << <<"r", "t", "e", "_", "c", "f", "g", "f", "i", "l", "e">>,
       <<"r", "t", "e", "_", "h", "a", "s", "h">>,
       <<"r", "t", "e", "_", "c", "m", "d", "l", "i", "n", "e">>,
       <<"r", "t", "e", "_", "p", "c", "i">>,
       <<"r", "t", "e", "_", "e", "t", "h", "d", "e", "v">>,
       <<"r", "t", "e", "_", "m", "e", "t", "e", "r">>,
       <<"r", "t", "e", "_", "n", "e", "t">>,
       <<"r", "t", "e", "_", "m", "b", "u", "f">>,
       <<"r", "t", "e", "_", "m", "e", "m", "p", "o", "o", "l">>,
       <<"r", "t", "e", "_", "r", "c", "u">>,
       <<"r", "t", "e", "_", "r", "i", "n", "g">>,
       <<"r", "t", "e", "_", "e", "a", "l">>,
       <<"r", "t", "e", "_", "t", "e", "l", "e", "m", "e", "t", "r", "y">>,
       <<"r", "t", "e", "_", "k", "v", "a", "r", "g", "s">> >>

LibLineValues == [i \in 1..Len(LibLines(out)) |-> LibLines(out)[i].value]

C4_FeatureAppendsOnLinux ==
    /\ (platform = "linux" /\ Located /\ mlx5) =>
           lib_names = DiscoveredNames \o FourNames
    /\ (platform = "linux" /\ Located /\ ~mlx5) =>
           lib_names = DiscoveredNames
    /\ (platform = "windows" /\ Located) =>
           lib_names = FourteenNames
    /\ Entered("generate") => LibLineValues = lib_names

C4_Witness ==
    /\ platform = "linux"
    /\ mlx5
    /\ pc = "done"
    /\ DiscoveredNames # <<>>
    /\ \E i \in 1..Len(DiscoveredNames) : DiscoveredNames[i] \in Range(FourNames)
    /\ Len(LibLines(out)) = Len(DiscoveredNames) + Len(FourNames)

\* C4 as stated: with the feature on, the four names end the list on every
\* platform
C4_FeatureAppendsEverywhere ==
    (Located /\ mlx5) =>
        /\ Len(lib_names) >= Len(FourNames)
        /\ SubSeq(lib_names, Len(lib_names) - Len(FourNames) + 1,
                  Len(lib_names)) = FourNames

(***************************************************************************)
(* C5 (as stated): when a pkg-config run exits with a nonzero status, no   *)
(* link directive is printed, neither generation nor compilation is        *)
(* attempted, and the run does not end in success.                         *)
(***************************************************************************)
C5_NonzeroExitStopsRun ==
    (status.cflags > 0 \/ status.ldflags > 0) =>
        /\ LinkLines(out) = <<>>
        /\ ~Entered("link")
        /\ ~Entered("generate")
        /\ ~Entered("compile")
        /\ pc # "done"

(***************************************************************************)
(* C6: on windows, when LIBDPDK_PATH is absent or not unicode, os_build    *)
(* returns the error of the missing variable, main panics, and nothing has *)
(* been printed, written or compiled.                                      *)
(***************************************************************************)
C6_MissingRootNoEffects ==
    (platform = "windows" /\ ~env_var_ok(env.LIBDPDK_PATH)) =>
        /\ pc \in {"start", "out_dir", "returned_err", "failed"}
        /\ pc \in {"returned_err", "failed"} => err = "ToolchainNotFound"
        /\ out = <<>>
        /\ artifacts = [bindings |-> FALSE, shim |-> FALSE]
        /\ clang_args = <<>> /\ cc_includes = <<>>
        /\ ran \in {<<>>, <<"locate">>}

C6_Witness ==
    /\ platform = "windows"
    /\ env.LIBDPDK_PATH.kind = "absent"
    /\ env.OUT_DIR.kind = "present"
    /\ pc = "failed"
    /\ err = "ToolchainNotFound"

(***************************************************************************)
(* C7 (as amended): on windows, for the root R read from LIBDPDK_PATH the  *)
(* include path is R followed by \include and the library path R followed  *)
(* by \lib (backslash, so /opt/dpdk gives /opt/dpdk\include and            *)
(* /opt/dpdk\lib); one rustc-link-search line for that path is printed and *)
(* then the fourteen rustc-link-lib lines in the declared order.           *)
(***************************************************************************)
WindowsRoot == env.LIBDPDK_PATH.value

WindowsReady == platform = "windows" /\ Located

WindowsLinkLines(libdir) ==
    <<D("rustc-link-search", libdir)>>
    \o [i \in 1..Len(FourteenNames) |->
            D("rustc-link-lib=dylib", FourteenNames[i])]

C7_WindowsBackslashPaths ==
    WindowsReady =>
        /\ header_locations =
               <<WindowsRoot \o <<"\\", "i", "n", "c", "l", "u", "d", "e">> >>
        /\ library_location = <<WindowsRoot \o <<"\\", "l", "i", "b">> >>
        /\ Entered("generate") =>
               /\ out = WindowsLinkLines(WindowsRoot \o <<"\\", "l", "i", "b">>)
               /\ Len(LibLines(out)) = 14

C7_Witness ==
    /\ platform = "windows"
    /\ pc = "done"
    /\ WindowsRoot = ExampleRoot
    /\ header_locations = << <<"/", "o", "p", "t", "/", "d", "p", "d", "k",
                               "\\", "i", "n", "c", "l", "u", "d", "e">> >>
    /\ Len(LibLines(out)) = 14

\* C7 as stated: the paths are R/include and R/lib
C7_WindowsSlashPaths ==
    WindowsReady =>
        /\ header_locations =
               <<WindowsRoot \o <<"/", "i", "n", "c", "l", "u", "d", "e">> >>
        /\ library_location = <<WindowsRoot \o <<"/", "l", "i", "b">> >>
        /\ Entered("generate") =>
               /\ out = WindowsLinkLines(WindowsRoot \o <<"/", "l", "i", "b">>)
               /\ Len(LibLines(out)) = 14

(***************************************************************************)
(* C8: the rules given to the bindgen Builder never hold the same kind and *)
(* name with both Allow and Block, on either platform, with or without the *)
(* feature.                                                                *)
(***************************************************************************)
C8_PolicyConsistent ==
    \A i, j \in 1..Len(policy) :
        (policy[i].kind = policy[j].kind /\ policy[i].name = policy[j].name)
            => policy[i].disposition = policy[j].disposition

C8_Witness ==
    /\ platform = "linux"
    /\ pc = "done"
    /\ \E i, j \in 1..Len(policy) :
           /\ policy[i].kind = "Type" /\ policy[j].kind = "Type"
           /\ policy[i].disposition = "Allow"
           /\ policy[j].disposition = "Block"

(***************************************************************************)
(* C9 (as stated): once a stage after the locator has been entered,        *)
(* header_locations is not empty and lib_names is not empty.               *)
(***************************************************************************)
C9_DescriptorNonEmpty ==
    (Entered("link") \/ Entered("generate") \/ Entered("compile")) =>
        /\ header_locations # <<>>
        /\ lib_names # <<>>

(***************************************************************************)
(* C10 (as amended): the stages are entered at most once and only in the   *)
(* order locate, link, generate, compile; a failure the script detects     *)
(* stops the run: no step follows the panic and nothing is retried; a      *)
(* failed run keeps what the stages before the failing one produced and   *)
(* holds nothing of a later stage; a run that ends in success has entered  *)
(* every stage and produced every output.                                  *)
(***************************************************************************)
StageOrder == <<"locate", "link", "generate", "compile">>

====
